---- MODULE Spec2Model ----
(***************************************************************************)
(* OAuth2 token lifecycle of the converty.shop integration service:        *)
(* the /api/v1/callback, /GetAccessToken and /get-products handlers of     *)
(* main.go, GetAccessToken and callConvertyAPIAndWrite of helper.go, and   *)
(* ListOrders / refreshAccessToken of service/dataService.go, running as   *)
(* concurrent requests over the single table public.token_infos.           *)
(*                                                                         *)
(* Strings are modelled by numbers where only emptiness and identity       *)
(* matter: token 0 is the empty string, token n > 0 is the token of the    *)
(* n-th successful response of the authorization server.  time.Time is a   *)
(* number of seconds, ZeroTime is Go's zero time.Time.                     *)
(***************************************************************************)
EXTENDS Integers, FiniteSets

\* ---------------------------------------------------------------- bounds
MaxTime == 1
MaxIssue == 3
MaxExpiresIn == 1

Procs == {1, 2}
ExpiresInValues == 0..MaxExpiresIn

\* ------------------------------------------------------------- constants
ZeroTime == -1
ExpectedState == "xyz123"
StatesIn == {"xyz123", "bad"}
CodesIn == {"", "code"}

StatusOK == 200
StatusBadRequest == 400
StatusUnauthorized == 401
StatusInternalServerError == 500
StatusBadGateway == 502

MsgInvalidState == "Invalid state parameter"
MsgMissingCode == "No authorization code received"
MsgExchangeTransport == "Failed to exchange code"
MsgExchangeFailed == "Token request failed with status"
MsgExchangeMalformed == "Failed to parse token response"
MsgSaveFailed == "Failed to save token to database"
MsgNoTokenRefresh == "No token found, please re-authenticate via /login"
MsgNoRefreshToken == "No refresh token available, please re-authenticate via /login"
MsgRefreshExpired == "Refresh token has expired, please re-authenticate via /login"
MsgRefreshTransport == "Failed to refresh token"
MsgRefreshFailed == "Refresh request failed with status"
MsgRefreshMalformed == "Failed to parse refresh token response"
MsgNoTokenProducts == "No token found, please authenticate via /login"
MsgProductsRefreshFailed == "Access token expired, refresh failed"
MsgProductsUpdateFailed == "Failed to update access token"
MsgApiTransport == "Failed to make API request to Converty.shop"
MsgApiFailed == "API request failed with status"
MsgNoTokenOrders == "no token found, please authenticate via /login"
MsgOrdersRefreshFailed == "access token expired, refresh failed"
MsgOrders401RefreshFailed == "401 unauthorized, refresh failed"
MsgOrdersTransport == "failed to fetch orders"
MsgOrdersParse == "failed to parse response"
MsgOrdersRejected == "failed to fetch orders: success=false"

\* ------------------------------------------------------------- the table
\* TokenInfo: the columns of public.token_infos the handlers read or write
\* (gorm.Model's ID; UserID is the constant "user1" in every statement).
TimeFields == {"issuedAt", "expiresAt", "refreshIssuedAt", "refreshExpiresAt"}

TokenInfo(id, at, rt, tt, ei, ia, ea, ria, rea) ==
    [id |-> id, accessToken |-> at, refreshToken |-> rt, tokenType |-> tt,
     expiresIn |-> ei, issuedAt |-> ia, expiresAt |-> ea,
     refreshIssuedAt |-> ria, refreshExpiresAt |-> rea]

\* var tokenInfo TokenInfo: Go's zero value
ZeroInfo == TokenInfo(0, 0, 0, "", 0, ZeroTime, ZeroTime, ZeroTime, ZeroTime)

\* TokenResponse as decoded from the token endpoint's JSON body
NoResp == [at |-> 0, rt |-> 0, ei |-> 0, tt |-> ""]

\* tokenInfo with a refresh token that outlives the access token
NewTokenInfoLongRefresh(resp, t) ==
    TokenInfo(0, resp.at, resp.rt, resp.tt, resp.ei, t, t + resp.ei, t, t + resp.ei + 1)

\* tokenInfo built from a decoded token response at time t (issuedAt :=
\* time.Now()); the refresh expiry is set to the access-token expiry.
NewTokenInfo(resp, t) ==
    TokenInfo(0, resp.at, resp.rt, resp.tt, resp.ei, t, t + resp.ei, t, t + resp.ei)

\* ------------------------------------------------------ GORM statements
\* A struct value updates only its non-zero fields.
IsZeroField(f, x) ==
    IF f \in TimeFields THEN x = ZeroTime
    ELSE IF f = "tokenType" THEN x = ""
    ELSE x = 0

AssignNonZero(row, v) ==
    [f \in DOMAIN row |-> IF IsZeroField(f, v[f]) THEN row[f] ELSE v[f]]

\* db.Where("user_id = ?", "user1").First(&tokenInfo): the row with the
\* least primary key, or not found.
HasRow(rs) == rs # {}

First(rs) == CHOOSE r \in rs : \A q \in rs : r.id <= q.id

\* FirstOrCreate(dest), query part: Find(dest) scans the row found into dest.
\* Assign(tokenInfo) holds the same pointer as dest, so after a row is found
\* the values to assign are the row's own values.
FirstOrCreateFind(rs, dest) == IF HasRow(rs) THEN First(rs) ELSE dest

\* Create on a table that lacks the unique index on user_id
CreateNoUniqueIndex(rs, v) ==
    [err |-> FALSE, rows |-> rs \cup {[v EXCEPT !.id = Cardinality(rs) + 1]}]

\* FirstOrCreate(dest), no row found: INSERT.  The unique index on user_id
\* rejects a second row for "user1".
Create(rs, v) ==
    IF \E r \in rs : TRUE
    THEN [err |-> TRUE, rows |-> rs]
    ELSE [err |-> FALSE, rows |-> rs \cup {[v EXCEPT !.id = Cardinality(rs) + 1]}]

\* FirstOrCreate(dest), row found: tx.Model(dest).Updates(assigns), the
\* non-zero fields of the Assign value, on the row with dest's primary key.
FirstOrCreateUpdate(rs, v) ==
    {IF r.id = v.id THEN AssignNonZero(r, v) ELSE r : r \in rs}

\* db.Where(TokenInfo{UserID: "user1"}).Updates(&tokenInfo): non-zero fields,
\* every row of user1.
UpdatesStruct(rs, v) == {AssignNonZero(r, v) : r \in rs}

\* db.Where(TokenInfo{UserID: "user1"}).Updates(map): the statement has no
\* Model and no Table and a map carries no schema, so GORM fails with
\* "unsupported data type: Table not set" and issues no SQL.
UpdatesMap(rs, at, ei, t, rea) == [err |-> TRUE, rows |-> rs]

\* db.Table("public.token_infos").Where(...).Update("access_token", newToken)
UpdateAccessToken(rs, at) == {[r EXCEPT !.accessToken = at] : r \in rs}

\* The fields of a tokenInfo read from the table that a handler still reads
\* after its expiry checks; the others are dead and left at their zero value.
Keep(ti, fields) == [f \in DOMAIN ti |-> IF f \in fields THEN ti[f] ELSE ZeroInfo[f]]

\* ------------------------------------------------------------ predicates
\* the expiry check written with "not before" instead of "after"
AccessExpiredNotBefore(t, ti) == t >= ti.expiresAt

\* time.Now().After(tokenInfo.ExpiresAt)
AccessExpired(t, ti) == t > ti.expiresAt

\* time.Now().After(tokenInfo.RefreshExpiresAt)
RefreshExpired(t, ti) == t > ti.refreshExpiresAt

\* the callback checks with the code tested first
CallbackCheckCodeFirst(state, code) ==
    IF code = "" THEN "MissingCode"
    ELSE IF state # ExpectedState THEN "InvalidState"
    ELSE "ok"

\* state and code checks of the callback handler
CallbackCheck(state, code) ==
    IF state # ExpectedState THEN "InvalidState"
    ELSE IF code = "" THEN "MissingCode"
    ELSE "ok"

\* the checks with the error of First(&tokenInfo) ignored: the zero tokenInfo
\* is then examined
RefreshCheckIgnoresLookupError(rs, t) ==
    IF ~HasRow(rs) THEN "NoRefreshToken"
    ELSE IF First(rs).refreshToken = 0 THEN "NoRefreshToken"
    ELSE IF RefreshExpired(t, First(rs)) THEN "RefreshTokenExpired"
    ELSE "ok"

\* the checks without the test of the refresh expiry
RefreshCheckNoExpiry(rs, t) ==
    IF ~HasRow(rs) THEN "NoTokenFound"
    ELSE IF First(rs).refreshToken = 0 THEN "NoRefreshToken"
    ELSE "ok"

\* checks of POST /GetAccessToken before the upstream request
RefreshCheck(rs, t) ==
    IF ~HasRow(rs) THEN "NoTokenFound"
    ELSE IF First(rs).refreshToken = 0 THEN "NoRefreshToken"
    ELSE IF RefreshExpired(t, First(rs)) THEN "RefreshTokenExpired"
    ELSE "ok"

\* ---------------------------------------------------------- environment
\* What the token endpoint may answer to one request; n is the serial of the
\* token pair it issues when it answers 200 with a decodable body: both
\* tokens with any expires_in, or a body that omits access_token or
\* refresh_token.
TokenBodies(n) ==
    {[at |-> n, rt |-> n, ei |-> e, tt |-> "Bearer"] : e \in ExpiresInValues}
    \cup {[at |-> 0, rt |-> n, ei |-> MaxExpiresIn, tt |-> "Bearer"],
          [at |-> n, rt |-> 0, ei |-> MaxExpiresIn, tt |-> "Bearer"]}

TokenFailures == {"transport", "non200", "malformed"}

\* What the partner API may answer to one request.
ApiOutcomes == {"transport", "401", "500", "200"}

\* What the body of a 200 orders response may be.
OrdersBodies == {"unparsable", "rejected", "orders"}

VARIABLES now, rows, issued, proc

vars == <<now, rows, issued, proc>>

\* ------------------------------------------------------------- requests
Idle ==
    [op |-> "none", pc |-> "done", in |-> [state |-> "", code |-> ""],
     ti |-> ZeroInfo, resp |-> NoResp, newTok |-> 0, tok |-> 0, ret |-> "",
     status |-> 0, err |-> "", tokenReqs |-> 0, apiCalls |-> 0]

Begin(op, pc) == [Idle EXCEPT !.op = op, !.pc = pc]

\* the request ends: writeError / the success response / the return value
End(pr, status, err) ==
    [pr EXCEPT !.pc = "done", !.status = status, !.err = err,
               !.ti = ZeroInfo, !.resp = NoResp, !.newTok = 0, !.tok = 0, !.ret = ""]

Init ==
    /\ now = 0
    /\ rows = {}
    /\ issued = 0
    /\ proc = [p \in Procs |-> Idle]

Tick ==
    /\ now < MaxTime
    /\ now' = now + 1
    /\ UNCHANGED <<rows, issued, proc>>

Set(p, pr) == proc' = [proc EXCEPT ![p] = pr]

\* ------------------------------------------------- GET /api/v1/callback
\* The request arrives: state is checked, then code; then
\* client.PostForm(tokenURL, data) leaves.
StartCallback(p) ==
    /\ proc[p].pc = "done"
    /\ \E s \in StatesIn, c \in CodesIn :
         LET pr == [Begin("Callback", "cb_wait") EXCEPT !.in = [state |-> s, code |-> c]]
             chk == CallbackCheck(s, c)
         IN  Set(p, IF chk = "InvalidState" THEN End(pr, StatusBadRequest, MsgInvalidState)
                    ELSE IF chk = "MissingCode" THEN End(pr, StatusBadRequest, MsgMissingCode)
                    ELSE [pr EXCEPT !.tokenReqs = @ + 1])
    /\ UNCHANGED <<now, rows, issued>>

\* the token endpoint fails: transport error, non-200 status, undecodable body
CbWaitFail(p) ==
    /\ proc[p].pc = "cb_wait"
    /\ \E f \in TokenFailures :
         Set(p, End(proc[p], StatusInternalServerError,
                    IF f = "transport" THEN MsgExchangeTransport
                    ELSE IF f = "non200" THEN MsgExchangeFailed
                    ELSE MsgExchangeMalformed))
    /\ UNCHANGED <<now, rows, issued>>

\* the token endpoint answers 200 with a decodable body; tokenInfo is built
CbWaitOk(p) ==
    /\ proc[p].pc = "cb_wait"
    /\ issued < MaxIssue
    /\ issued' = issued + 1
    /\ \E b \in TokenBodies(issued + 1) :
         Set(p, [proc[p] EXCEPT !.pc = "cb_find", !.resp = b, !.ti = NewTokenInfo(b, now)])
    /\ UNCHANGED <<now, rows>>

\* FirstOrCreate: the SELECT
CbFind(p) ==
    /\ proc[p].pc = "cb_find"
    /\ Set(p, [proc[p] EXCEPT !.pc = IF HasRow(rows) THEN "cb_update" ELSE "cb_create",
                              !.ti = FirstOrCreateFind(rows, proc[p].ti)])
    /\ UNCHANGED <<now, rows, issued>>

\* FirstOrCreate: the INSERT, then the response
CbCreate(p) ==
    /\ proc[p].pc = "cb_create"
    /\ LET res == Create(rows, proc[p].ti)
       IN  /\ rows' = res.rows
           /\ Set(p, IF res.err THEN End(proc[p], StatusInternalServerError, MsgSaveFailed)
                      ELSE End(proc[p], StatusOK, ""))
    /\ UNCHANGED <<now, issued>>

\* FirstOrCreate: the UPDATE of the row found, then the response
CbUpdate(p) ==
    /\ proc[p].pc = "cb_update"
    /\ rows' = FirstOrCreateUpdate(rows, proc[p].ti)
    /\ Set(p, End(proc[p], StatusOK, ""))
    /\ UNCHANGED <<now, issued>>

\* ------------------------------------------------- POST /GetAccessToken
\* The handler answers its HTTP client.  A direct request ends here; for
\* refreshAccessToken (ListOrders) the client checks the status and the
\* access_token of the body, and ListOrders goes on or returns the error.
Respond(pr, status, err, at) ==
    IF pr.op = "Refresh" THEN End(pr, status, err)
    ELSE IF status # StatusOK \/ at = 0
         THEN End(pr, 0, IF pr.ret = "stale" THEN MsgOrdersRefreshFailed
                         ELSE MsgOrders401RefreshFailed)
         ELSE [pr EXCEPT !.pc = "lo_upd", !.newTok = at, !.ti = ZeroInfo, !.resp = NoResp]

\* First(&tokenInfo), the checks, and client.PostForm(tokenURL, data) leaving
HandleRefresh(pr) ==
    LET chk == RefreshCheck(rows, now)
    IN  IF chk = "NoTokenFound"
        THEN Respond(pr, StatusUnauthorized, MsgNoTokenRefresh, 0)
        ELSE IF chk = "NoRefreshToken"
        THEN Respond(pr, StatusBadRequest, MsgNoRefreshToken, 0)
        ELSE IF chk = "RefreshTokenExpired"
        THEN Respond(pr, StatusUnauthorized, MsgRefreshExpired, 0)
        ELSE [pr EXCEPT !.pc = "rf_wait", !.ti = Keep(First(rows), {"refreshToken"}),
                        !.tokenReqs = @ + 1]

\* a request to POST /GetAccessToken arrives from outside
StartRefresh(p) ==
    /\ proc[p].pc = "done"
    /\ Set(p, HandleRefresh(Begin("Refresh", "rf_read")))
    /\ UNCHANGED <<now, rows, issued>>

\* the request of refreshAccessToken arrives
RfRead(p) ==
    /\ proc[p].pc = "rf_read"
    /\ Set(p, HandleRefresh(proc[p]))
    /\ UNCHANGED <<now, rows, issued>>

RfWaitFail(p) ==
    /\ proc[p].pc = "rf_wait"
    /\ \E f \in TokenFailures :
         Set(p, Respond(proc[p], StatusInternalServerError,
                        IF f = "transport" THEN MsgRefreshTransport
                        ELSE IF f = "non200" THEN MsgRefreshFailed
                        ELSE MsgRefreshMalformed, 0))
    /\ UNCHANGED <<now, rows, issued>>

\* 200 with a decodable body: tokenInfo is replaced by a new struct
RfWaitOk(p) ==
    /\ proc[p].pc = "rf_wait"
    /\ issued < MaxIssue
    /\ issued' = issued + 1
    /\ \E b \in TokenBodies(issued + 1) :
         Set(p, [proc[p] EXCEPT !.pc = "rf_write", !.resp = b, !.ti = NewTokenInfo(b, now)])
    /\ UNCHANGED <<now, rows>>

\* Updates(&tokenInfo), then the JSON of tokenResp
RfWrite(p) ==
    /\ proc[p].pc = "rf_write"
    /\ rows' = UpdatesStruct(rows, proc[p].ti)
    /\ Set(p, Respond(proc[p], StatusOK, "", proc[p].resp.at))
    /\ UNCHANGED <<now, issued>>

\* ----------------------------------------------------- GET /get-products
\* /get-products with a single-flight guard: a stale token is not refreshed
\* while another refresh request is in flight
StartGetProductsSingleFlight(p) ==
    /\ proc[p].pc = "done"
    /\ LET pr == Begin("GetProducts", "gp_call")
           busy == \E q \in Procs \ {p} : proc[q].pc \in {"gp_wait", "rf_wait"}
       IN  Set(p, IF ~HasRow(rows)
                  THEN End(pr, StatusUnauthorized, MsgNoTokenProducts)
                  ELSE IF AccessExpired(now, First(rows)) /\ busy
                  THEN End(pr, StatusUnauthorized, MsgProductsRefreshFailed)
                  ELSE IF AccessExpired(now, First(rows))
                  THEN [pr EXCEPT !.pc = "gp_wait", !.tokenReqs = @ + 1,
                                  !.ti = Keep(First(rows), {"refreshToken", "expiresIn",
                                                            "refreshExpiresAt"})]
                  ELSE [pr EXCEPT !.tok = First(rows).accessToken])
    /\ UNCHANGED <<now, rows, issued>>

\* The request arrives: First(&tokenInfo) and the expiry check; a stale
\* token sends the POST of GetAccessToken(tokenInfo.RefreshToken).
StartGetProducts(p) ==
    /\ proc[p].pc = "done"
    /\ LET pr == Begin("GetProducts", "gp_call")
       IN  Set(p, IF ~HasRow(rows)
                  THEN End(pr, StatusUnauthorized, MsgNoTokenProducts)
                  ELSE IF AccessExpired(now, First(rows))
                  THEN [pr EXCEPT !.pc = "gp_wait", !.tokenReqs = @ + 1,
                                  !.ti = Keep(First(rows), {"refreshToken", "expiresIn",
                                                            "refreshExpiresAt"})]
                  ELSE [pr EXCEPT !.tok = First(rows).accessToken])
    /\ UNCHANGED <<now, rows, issued>>

\* GetAccessToken returns an error
GpWaitFail(p) ==
    /\ proc[p].pc = "gp_wait"
    /\ \E f \in TokenFailures :
         Set(p, End(proc[p], StatusUnauthorized, MsgProductsRefreshFailed))
    /\ UNCHANGED <<now, rows, issued>>

\* GetAccessToken without its test of an empty access_token
GpWaitOkUnchecked(p) ==
    /\ proc[p].pc = "gp_wait"
    /\ issued < MaxIssue
    /\ issued' = issued + 1
    /\ \E b \in TokenBodies(issued + 1) :
         Set(p, [proc[p] EXCEPT !.pc = "gp_write", !.newTok = b.at])
    /\ UNCHANGED <<now, rows>>

\* the token endpoint answers 200; GetAccessToken keeps access_token alone
\* and fails when it is empty
GpWaitOk(p) ==
    /\ proc[p].pc = "gp_wait"
    /\ issued < MaxIssue
    /\ issued' = issued + 1
    /\ \E b \in TokenBodies(issued + 1) :
         Set(p, IF b.at = 0
                THEN End(proc[p], StatusUnauthorized, MsgProductsRefreshFailed)
                ELSE [proc[p] EXCEPT !.pc = "gp_write", !.newTok = b.at])
    /\ UNCHANGED <<now, rows>>

\* Updates(updates), then tokenInfo.AccessToken = newToken
GpWrite(p) ==
    /\ proc[p].pc = "gp_write"
    /\ LET res == UpdatesMap(rows, proc[p].newTok, proc[p].ti.expiresIn, now,
                             proc[p].ti.refreshExpiresAt)
       IN  /\ rows' = res.rows
           /\ Set(p, IF res.err
                      THEN End(proc[p], StatusInternalServerError, MsgProductsUpdateFailed)
                      ELSE [proc[p] EXCEPT !.pc = "gp_call", !.tok = proc[p].newTok,
                                           !.ti = ZeroInfo])
    /\ UNCHANGED <<now, issued>>

\* a partner call that refreshes the token when it is answered 401
GpCallRefreshOn401(p) ==
    /\ proc[p].pc = "gp_call"
    /\ \E o \in ApiOutcomes :
         LET pr == [proc[p] EXCEPT !.apiCalls = @ + 1]
         IN  Set(p, IF o = "transport" THEN End(pr, StatusInternalServerError, MsgApiTransport)
                    ELSE IF o = "401" THEN [pr EXCEPT !.pc = "gp_wait", !.tokenReqs = @ + 1]
                    ELSE IF o # "200" THEN End(pr, StatusBadGateway, MsgApiFailed)
                    ELSE End(pr, StatusOK, ""))
    /\ UNCHANGED <<now, rows, issued>>

\* callConvertyAPIAndWrite: one request, the answer is written as it comes
GpCall(p) ==
    /\ proc[p].pc = "gp_call"
    /\ \E o \in ApiOutcomes :
         LET pr == [proc[p] EXCEPT !.apiCalls = @ + 1]
         IN  Set(p, IF o = "transport" THEN End(pr, StatusInternalServerError, MsgApiTransport)
                    ELSE IF o # "200" THEN End(pr, StatusBadGateway, MsgApiFailed)
                    ELSE End(pr, StatusOK, ""))
    /\ UNCHANGED <<now, rows, issued>>

\* ------------------------------------------------------------ ListOrders
\* refreshAccessToken: POST http://localhost:8080/GetAccessToken.  The
\* service itself listens on :9001: the request is refused (reach = FALSE)
\* unless the deployment forwards port 8080 to the service.
RefreshAccessToken(pr, reach, why) ==
    IF reach THEN [pr EXCEPT !.pc = "rf_read", !.ret = why]
    ELSE End(pr, 0, IF why = "stale" THEN MsgOrdersRefreshFailed
                    ELSE MsgOrders401RefreshFailed)

\* ListOrders is called from the console menu alone, one call at a time.
ConsoleBusy == \E q \in Procs : proc[q].op = "ListOrders" /\ proc[q].pc # "done"

\* The call begins: Table(...).First(&tokenInfo) and the expiry check; a
\* stale token calls refreshAccessToken.
StartListOrders(p) ==
    /\ proc[p].pc = "done"
    /\ ~ConsoleBusy
    /\ \E reach \in BOOLEAN :
         LET pr == Begin("ListOrders", "lo_get")
         IN  Set(p, IF ~HasRow(rows)
                    THEN End(pr, 0, MsgNoTokenOrders)
                    ELSE IF AccessExpired(now, First(rows))
                    THEN RefreshAccessToken(pr, reach, "stale")
                    ELSE [pr EXCEPT !.tok = First(rows).accessToken])
    /\ UNCHANGED <<now, rows, issued>>

\* Update("access_token", newToken) after a refresh; then the first request
\* (stale token) or the retry (401)
LoUpd(p) ==
    /\ proc[p].pc = "lo_upd"
    /\ rows' = UpdateAccessToken(rows, proc[p].newTok)
    /\ Set(p, [proc[p] EXCEPT !.pc = IF proc[p].ret = "stale" THEN "lo_get" ELSE "lo_retry",
                              !.tok = proc[p].newTok, !.newTok = 0, !.ret = ""])
    /\ UNCHANGED <<now, issued>>

\* the result of a 200 orders response
Parsed(pr, body) ==
    IF body = "unparsable" THEN End(pr, 0, MsgOrdersParse)
    ELSE IF body = "rejected" THEN End(pr, 0, MsgOrdersRejected)
    ELSE End(pr, StatusOK, "")

\* client.Do(req): the orders GET; a 401 calls refreshAccessToken
LoGet(p) ==
    /\ proc[p].pc = "lo_get"
    /\ \E o \in ApiOutcomes, body \in OrdersBodies, reach \in BOOLEAN :
         LET pr == [proc[p] EXCEPT !.apiCalls = @ + 1]
         IN  Set(p, IF o = "transport" THEN End(pr, 0, MsgOrdersTransport)
                    ELSE IF o = "401" THEN RefreshAccessToken(pr, reach, "401")
                    ELSE IF o # "200" THEN End(pr, 0, MsgApiFailed)
                    ELSE Parsed(pr, body))
    /\ UNCHANGED <<now, rows, issued>>

\* a retry that treats a second 401 like the first
LoRetryAgain(p) ==
    /\ proc[p].pc = "lo_retry"
    /\ \E o \in ApiOutcomes, body \in OrdersBodies, reach \in BOOLEAN :
         LET pr == [proc[p] EXCEPT !.apiCalls = @ + 1]
         IN  Set(p, IF o = "transport" THEN End(pr, 0, MsgOrdersTransport)
                    ELSE IF o = "401" THEN RefreshAccessToken(pr, reach, "401")
                    ELSE IF o # "200" THEN End(pr, 0, MsgApiFailed)
                    ELSE Parsed(pr, body))
    /\ UNCHANGED <<now, rows, issued>>

\* client.Do(req) again, with the new token
LoRetry(p) ==
    /\ proc[p].pc = "lo_retry"
    /\ \E o \in ApiOutcomes, body \in OrdersBodies :
         LET pr == [proc[p] EXCEPT !.apiCalls = @ + 1]
         IN  Set(p, IF o = "transport" THEN End(pr, 0, MsgOrdersTransport)
                    ELSE IF o # "200" THEN End(pr, 0, MsgApiFailed)
                    ELSE Parsed(pr, body))
    /\ UNCHANGED <<now, rows, issued>>

\* ------------------------------------------------------- specification
Step(p) ==
    \/ StartCallback(p) \/ CbWaitFail(p) \/ CbWaitOk(p)
    \/ CbFind(p) \/ CbCreate(p) \/ CbUpdate(p)
    \/ StartRefresh(p) \/ RfRead(p) \/ RfWaitFail(p) \/ RfWaitOk(p) \/ RfWrite(p)
    \/ StartGetProducts(p) \/ GpWaitFail(p) \/ GpWaitOk(p) \/ GpWrite(p) \/ GpCall(p)
    \/ StartListOrders(p) \/ LoUpd(p) \/ LoGet(p) \/ LoRetry(p)

Next == Tick \/ \E p \in Procs : Step(p)

Spec == Init /\ [][Next]_vars

\* =================================================================
\* Properties
\* =================================================================

\* p takes a step that begins operation op
Begins(p, op) ==
    proc[p].pc = "done" /\ proc'[p] # proc[p] /\ proc'[p].op = op

\* p's step ends its request
Ends(p) == proc[p].pc # "done" /\ proc'[p].pc = "done"

\* p's step sends a request to the token endpoint
Sends(p) ==
    /\ proc'[p] # proc[p]
    /\ proc'[p].pc \in {"cb_wait", "rf_wait", "gp_wait"}
    /\ proc[p].pc \notin {"cb_wait", "rf_wait", "gp_wait"}

\* C1: every successful ExchangeCode leaves exactly one record, and that
\* record holds the values of the exchange's token response, with
\* expiresAt = issuedAt + expiresIn, whether or not a record existed before.
C1_ExchangeUpserts ==
    [][\A p \in Procs :
        (proc[p].op = "Callback" /\ Ends(p) /\ proc'[p].status = StatusOK)
        => /\ Cardinality(rows') = 1
           /\ \A r \in rows' :
                /\ r.accessToken = proc[p].resp.at
                /\ r.refreshToken = proc[p].resp.rt
                /\ r.tokenType = proc[p].resp.tt
                /\ r.expiresIn = proc[p].resp.ei
                /\ r.expiresAt = r.issuedAt + proc[p].resp.ei]_vars

\* C2: in every reachable state, whatever the interleaving of the requests,
\* the table holds at most one record for the user.
C2_AtMostOneRecord == Cardinality(rows) <= 1

\* two callbacks raced for the INSERT and the index rejected the second
C2_Witness ==
    /\ Cardinality(rows) = 1
    /\ \E p \in Procs : proc[p].op = "Callback" /\ proc[p].err = MsgSaveFailed

\* C3: when the stored record has now <= expiresAt, the validity step of
\* /get-products and of ListOrders goes straight to the partner call with the
\* stored access token, has sent nothing to the token endpoint, and leaves
\* the table and the authorization server untouched.
C3_ValidTokenUsedUnchanged ==
    [][\A p \in Procs :
        ((Begins(p, "GetProducts") \/ Begins(p, "ListOrders"))
            /\ HasRow(rows) /\ now <= First(rows).expiresAt)
        => /\ proc'[p].pc = (IF proc'[p].op = "GetProducts" THEN "gp_call" ELSE "lo_get")
           /\ proc'[p].tok = First(rows).accessToken
           /\ proc'[p].tokenReqs = 0
           /\ proc'[p].apiCalls = 0
           /\ rows' = rows
           /\ issued' = issued]_vars

\* both front ends are about to call the partner API with the stored token
C3_Witness ==
    /\ HasRow(rows)
    /\ \E p, q \in Procs :
         /\ proc[p].pc = "gp_call" /\ proc[q].pc = "lo_get"
         /\ proc[p].tokenReqs = 0 /\ proc[q].tokenReqs = 0
         /\ proc[p].tok = First(rows).accessToken
         /\ proc[q].tok = First(rows).accessToken
         /\ proc[p].tok # 0
         /\ now <= First(rows).expiresAt

\* the stored record is stale yet refreshable
StaleRefreshable == HasRow(rows) /\ now > First(rows).expiresAt
                        /\ now <= First(rows).refreshExpiresAt

\* C5: when the stored record has now > refreshExpiresAt (and a refresh token),
\* every refresh attempt - POST /GetAccessToken, the stale-token refresh of
\* /get-products and of ListOrders - fails, sends nothing to the token
\* endpoint and leaves the record unchanged.
C5_ExpiredRefreshSendsNothing ==
    [][\A p \in Procs :
        (/\ HasRow(rows) /\ RefreshExpired(now, First(rows))
         /\ First(rows).refreshToken # 0
         /\ \/ Begins(p, "Refresh")
            \/ proc[p].pc = "rf_read" /\ proc'[p] # proc[p]
            \/ Begins(p, "GetProducts") /\ AccessExpired(now, First(rows))
            \/ Begins(p, "ListOrders") /\ AccessExpired(now, First(rows)))
        => /\ proc'[p].pc \in {"done", "rf_read"}
           /\ proc'[p].pc = "done" =>
                proc'[p].err \in {MsgRefreshExpired, MsgOrdersRefreshFailed,
                                  MsgOrders401RefreshFailed}
           /\ proc'[p].op = "Refresh" => proc'[p].status = StatusUnauthorized
           /\ ~Sends(p)
           /\ rows' = rows
           /\ issued' = issued]_vars

\* C6: a callback whose state is not the expected one ends with 400
\* InvalidState whatever its code (the empty code included), and one with the
\* expected state and an empty code ends with 400 MissingCode; neither sends
\* a token request or touches the table.
C6_StateCheckedBeforeCode ==
    [][\A p \in Procs :
        Begins(p, "Callback")
        => /\ proc'[p].in.state # ExpectedState
                => /\ proc'[p].pc = "done"
                   /\ proc'[p].status = 400
                   /\ proc'[p].err = "Invalid state parameter"
                   /\ proc'[p].tokenReqs = 0
                   /\ rows' = rows /\ issued' = issued
           /\ (proc'[p].in.state = ExpectedState /\ proc'[p].in.code = "")
                => /\ proc'[p].pc = "done"
                   /\ proc'[p].status = 400
                   /\ proc'[p].err = "No authorization code received"
                   /\ proc'[p].tokenReqs = 0
                   /\ rows' = rows /\ issued' = issued]_vars

\* a callback with a wrong state and no code was answered InvalidState
C6_Witness ==
    \E p \in Procs :
        /\ proc[p].op = "Callback" /\ proc[p].pc = "done"
        /\ proc[p].in.state # ExpectedState /\ proc[p].in.code = ""
        /\ proc[p].status = 400 /\ proc[p].err = MsgInvalidState

\* C7: with no record in the table, POST /GetAccessToken answers 401 "No token
\* found, please re-authenticate via /login", and /get-products and ListOrders
\* fail with their no-token error; none sends an upstream request and no
\* record is created.
C7_NoRecordNoRefresh ==
    [][\A p \in Procs :
        (~HasRow(rows)
            /\ (Begins(p, "Refresh") \/ Begins(p, "GetProducts") \/ Begins(p, "ListOrders")))
        => /\ proc'[p].pc = "done"
           /\ proc'[p].op = "Refresh" =>
                /\ proc'[p].status = 401
                /\ proc'[p].err = "No token found, please re-authenticate via /login"
           /\ proc'[p].op = "GetProducts" =>
                /\ proc'[p].status = 401
                /\ proc'[p].err = "No token found, please authenticate via /login"
           /\ proc'[p].op = "ListOrders" =>
                proc'[p].err = "no token found, please authenticate via /login"
           /\ proc'[p].tokenReqs = 0
           /\ proc'[p].apiCalls = 0
           /\ rows' = {}
           /\ issued' = issued]_vars

\* the three operations were refused on an empty table
C7_Witness ==
    /\ rows = {}
    /\ \E p, q \in Procs :
         /\ proc[p].op = "Refresh" /\ proc[p].status = 401
         /\ proc[p].err = MsgNoTokenRefresh
         /\ proc[q].op \in {"GetProducts", "ListOrders"} /\ proc[q].pc = "done"
         /\ proc[q].err \in {MsgNoTokenProducts, MsgNoTokenOrders}

\* the steps a ListOrders call still has before it, at most
Rank(pr) ==
    LET base == IF pr.ret = "stale" THEN 6 ELSE 1
    IN  IF pr.pc = "done" THEN 0
        ELSE IF pr.pc = "lo_retry" THEN 1
        ELSE IF pr.pc = "lo_get" THEN 6
        ELSE IF pr.pc = "lo_upd" THEN base + 1
        ELSE IF pr.pc = "rf_write" THEN base + 2
        ELSE IF pr.pc = "rf_wait" THEN base + 3
        ELSE base + 4

\* C8: a ListOrders call has no loop: every step of it brings it strictly
\* closer to its end, it sends the orders GET at most twice, a 401 on the
\* first GET is followed by one refreshAccessToken call and, when that
\* succeeds, by one retry with the new token, and the retry always ends the
\* call, whatever it is answered.
C8_ListOrdersTerminates ==
    [][\A p \in Procs :
        (proc[p].op = "ListOrders" /\ proc[p].pc # "done" /\ proc'[p] # proc[p])
        => /\ Rank(proc'[p]) < Rank(proc[p])
           /\ proc'[p].apiCalls <= 2
           /\ proc[p].pc = "lo_retry" =>
                /\ proc[p].tok # 0 /\ proc[p].apiCalls = 1
                /\ proc'[p].pc = "done" /\ proc'[p].apiCalls = 2
           /\ (proc[p].pc = "lo_upd" /\ proc'[p].pc = "lo_retry") =>
                /\ proc[p].ret = "401"
                /\ proc'[p].tok = proc[p].newTok
                /\ proc[p].tokenReqs >= 1]_vars

\* a call ended after its retry
C8_Witness ==
    \E p \in Procs :
        /\ proc[p].op = "ListOrders" /\ proc[p].pc = "done"
        /\ proc[p].apiCalls = 2

\* the access token and the expiry fields of the stored records
TokenAndExpiry(rs) ==
    {<<r.id, r.accessToken, r.expiresAt, r.refreshExpiresAt>> : r \in rs}

\* p's step receives a new access token from the token endpoint
Obtains(p) ==
    \/ proc'[p].newTok # 0 /\ proc[p].pc = "gp_wait"
    \/ proc'[p].resp.at # 0 /\ proc[p].pc = "rf_wait"

\* C9: Expired is terminal until re-authentication: while now >
\* refreshExpiresAt for the stored record, no step of an operation other than
\* ExchangeCode receives a new token from the token endpoint or changes the
\* access token or the expiry of the record.
C9_ExpiredIsTerminal ==
    [][(HasRow(rows) /\ RefreshExpired(now, First(rows)))
        => \A p \in Procs :
             (proc'[p] # proc[p] /\ proc'[p].op # "Callback")
             => /\ ~Obtains(p)
                /\ TokenAndExpiry(rows') = TokenAndExpiry(rows)]_vars

\* C10: every stored record has expiresAt > issuedAt and
\* refreshExpiresAt >= issuedAt.
C10_ExpiryAfterIssue ==
    \A r \in rows : r.expiresAt > r.issuedAt /\ r.refreshExpiresAt >= r.issuedAt

\* C11: whenever a record exists, its accessToken and its refreshToken are
\* both non-empty, whatever 200 bodies the token endpoint returns.
C11_TokensNeverEmpty ==
    \A r \in rows : r.accessToken # 0 /\ r.refreshToken # 0

\* C12: every successful refresh overwrites the stored record in full with
\* the values of the new token response: the write of the refresh endpoint
\* (also reached from ListOrders) and the write of /get-products leave a
\* record that holds the new access token, refresh token, token type, issue
\* and expiry times, with a refreshExpiresAt later than the previous one.
C12_RefreshOverwritesInFull ==
    [][\A p \in Procs :
        /\ (proc[p].pc = "rf_write" /\ proc'[p] # proc[p])
            => \A r \in rows' :
                 /\ r.accessToken = proc[p].resp.at
                 /\ r.refreshToken = proc[p].resp.rt
                 /\ r.tokenType = proc[p].resp.tt
                 /\ r.issuedAt = proc[p].ti.issuedAt
                 /\ r.expiresAt = proc[p].ti.issuedAt + proc[p].resp.ei
                 /\ r.refreshIssuedAt = proc[p].ti.issuedAt
                 /\ \A q \in rows : r.refreshExpiresAt > q.refreshExpiresAt
        /\ (proc[p].pc = "gp_write" /\ proc'[p] # proc[p])
            => \A r \in rows' :
                 /\ r.accessToken = proc[p].newTok
                 /\ r.issuedAt = now
                 /\ \A q \in rows : r.refreshExpiresAt > q.refreshExpiresAt]_vars

\* the request holds tokens that the token endpoint issued to it, or it has
\* already had the record rewritten by a refresh
HoldsIssued(pr) ==
    \/ pr.newTok # 0 \/ pr.resp.at # 0 \/ pr.resp.rt # 0
    \/ pr.op = "ListOrders" /\ pr.tokenReqs > 0 /\ pr.pc \in {"lo_get", "lo_retry"}

\* C13: no partial success: a request that ends with an error has not
\* changed the stored record, neither in its last step nor before, and has
\* not been issued tokens by the authorization server that the store does
\* not hold.
C13_NoPartialSuccess ==
    [][\A p \in Procs :
        (Ends(p) /\ proc'[p].err # "")
        => rows' = rows /\ ~HoldsIssued(proc[p])]_vars

\* the messages of the AuthError outcomes of the callback and the refresh
\* endpoint, and those of upstream transport and storage failures
AuthErrorMsgs ==
    {MsgInvalidState, MsgMissingCode, MsgNoTokenRefresh, MsgNoRefreshToken,
     MsgRefreshExpired, MsgExchangeFailed, MsgRefreshFailed,
     MsgExchangeMalformed, MsgRefreshMalformed}

TransportOrStorageMsgs == {MsgExchangeTransport, MsgRefreshTransport, MsgSaveFailed}

\* C14: every callback or refresh request that ended with an AuthError was
\* answered with a 4xx status, and one answered with a 5xx status ended with
\* an upstream transport failure or a storage failure.
C14_AuthErrorsAre4xx ==
    \A p \in Procs :
        (proc[p].op \in {"Callback", "Refresh"} /\ proc[p].pc = "done")
        => /\ proc[p].err \in AuthErrorMsgs => proc[p].status \in 400..499
           /\ proc[p].status \in 500..599 => proc[p].err \in TransportOrStorageMsgs

\* C15: GetAccessToken never returns an empty access token with a nil error:
\* whatever the token endpoint answers to its one request, the call either
\* fails (the request ends 401, table untouched) or returns the non-empty
\* access_token of the response just issued.
C15_GetAccessTokenNeverEmpty ==
    [][\A p \in Procs :
        (proc[p].pc = "gp_wait" /\ proc'[p] # proc[p])
        => /\ proc[p].tokenReqs = 1 /\ proc'[p].tokenReqs = 1
           /\ rows' = rows
           /\ \/ /\ proc'[p].pc = "done"
                 /\ proc'[p].status = StatusUnauthorized
                 /\ proc'[p].err = MsgProductsRefreshFailed
                 /\ proc'[p].newTok = 0
              \/ /\ proc'[p].pc = "gp_write"
                 /\ proc'[p].newTok # 0
                 /\ issued' = issued + 1
                 /\ proc'[p].newTok = issued']_vars

\* one call returned a token, another returned an error
C15_Witness ==
    \E p, q \in Procs :
        /\ proc[p].pc = "gp_write" /\ proc[p].newTok # 0 /\ proc[p].tokenReqs = 1
        /\ proc[q].op = "GetProducts" /\ proc[q].pc = "done"
        /\ proc[q].err = MsgProductsRefreshFailed /\ proc[q].tokenReqs = 1

C17_RawCallNeverRefreshes ==
    [][\A p \in Procs :
        (proc[p].pc = "gp_call" /\ proc'[p] # proc[p])
        => /\ proc'[p].pc = "done"
           /\ proc[p].apiCalls = 0 /\ proc'[p].apiCalls = 1
           /\ proc[p].tokenReqs = 0 /\ proc'[p].tokenReqs = 0
           /\ proc'[p].status \in {StatusOK, StatusInternalServerError, StatusBadGateway}
           /\ proc'[p].status = StatusOK <=> proc'[p].err = ""
           /\ proc'[p].status = StatusBadGateway <=> proc'[p].err = MsgApiFailed
           /\ proc'[p].status = StatusInternalServerError <=> proc'[p].err = MsgApiTransport
           /\ rows' = rows
           /\ issued' = issued]_vars

\* a /get-products request with a valid token was answered non-200 by the
\* partner API and ended with 502, nothing refreshed
C17_Witness ==
    /\ HasRow(rows)
    /\ \E p \in Procs :
         /\ proc[p].op = "GetProducts" /\ proc[p].pc = "done"
         /\ proc[p].status = 502 /\ proc[p].err = MsgApiFailed
         /\ proc[p].apiCalls = 1 /\ proc[p].tokenReqs = 0

\* C18: every stored record has refreshExpiresAt <= expiresAt, so no record
\* is ever stale yet refreshable, and the refresh endpoint passes its checks
\* and sends its token request only while the access token is unexpired.
C18_RefreshExpiryNotAfterExpiry ==
    /\ [](/\ \A r \in rows : r.refreshExpiresAt <= r.expiresAt
          /\ ~StaleRefreshable)
    /\ [][\A p \in Procs :
            (Sends(p) /\ proc'[p].pc = "rf_wait")
            => HasRow(rows) /\ ~AccessExpired(now, First(rows))]_vars

\* the record is stale and the refresh endpoint refused to refresh it
C18_Witness ==
    /\ HasRow(rows) /\ AccessExpired(now, First(rows))
    /\ First(rows).refreshToken # 0
    /\ \E p \in Procs :
         /\ proc[p].op = "Refresh" /\ proc[p].pc = "done"
         /\ proc[p].status = StatusUnauthorized /\ proc[p].err = MsgRefreshExpired

\* the request is about to store tokens of a response that carried an
\* access token (and, where the handler keeps it, a refresh token)
WritesRefresh(pr) ==
    \/ pr.pc = "rf_write" /\ pr.resp.at # 0 /\ pr.resp.rt # 0
    \/ pr.pc \in {"gp_write", "lo_upd"} /\ pr.newTok # 0

\* C19: when a refresh completes its write over a record that holds the
\* pair of one response, the record then holds the access token and the
\* refresh token issued together by the most recent successful token
\* response (serial issued): no superseded token, no mixed pair.
C19_StoreHoldsLatestPair ==
    [][\A p \in Procs :
        (/\ proc'[p] # proc[p]
         /\ WritesRefresh(proc[p])
         /\ \A r \in rows : r.accessToken # 0 /\ r.accessToken = r.refreshToken)
        => \A r \in rows' : r.accessToken = issued /\ r.refreshToken = issued]_vars

\* p's step is one of a ListOrders call that found the record stale and has
\* not yet got a new token
StaleRefreshStep(p) ==
    proc[p].op = "ListOrders" /\ proc[p].ret = "stale" /\ proc'[p] # proc[p]

\* no ExchangeCode is in flight
NoCallbackInFlight == ~\E q \in Procs : proc[q].op = "Callback" /\ proc[q].pc # "done"

====
